---- MODULE Spec2Model ----
(***************************************************************************)
(* A model of the R_in measurement and leak-conductance tuning tool:       *)
(*   src/Simulation.py                          RInSimulation              *)
(*   src/download_from_allen_and_tune_r_in.py   helpers and the script     *)
(*                                                                         *)
(* Python objects are modelled with their identity: a dict is a cell of    *)
(* `heap`, a list is a sequence of cell ids, so that a shallow copy        *)
(* (list.copy) shares its elements with the list it copies.                *)
(*                                                                         *)
(* Floats are modelled by exact rationals.  Times are integers in units    *)
(* of 1/1000 ms (dt = 0.025 ms is 25); the inputs of the model are chosen  *)
(* so that the double quotient and the exact quotient truncate to the same *)
(* integer (dyadic values, and 100/0.025 = 4000.0, 900/0.025 = 36000.0 in  *)
(* IEEE double arithmetic).  Voltages (mV), currents (nA), conductances    *)
(* and resistances are integers standing for the floats of that value.     *)
(***************************************************************************)
EXTENDS Integers, Sequences, FiniteSets, TLC

\* Longest parameter list (genome) the model draws.
MaxLen == 2
\* Longest voltage trace the estimator is applied to.
MaxTrace == 3

VARIABLES
    \* ---- update_sections: the caller's list and the dicts it holds
    heap,               \* dict id -> [section, name, value]
    data,               \* the caller's list: a sequence of dict ids
    heap0,              \* the dicts as they were before the call
    value_to_assign,
    sections,
    var_to_update,
    new_assignments,    \* the returned list (a sequence of dict ids)
    patchStatus,        \* "ready" | "returned" | "ZeroDivisionError"
    \* ---- RInSimulation.measure_r_in
    dt,                 \* h.dt
    stim_delay,
    stim_dur,
    stim_amp,
    v,                  \* the recorded voltage trace, v[k + 1] is sample k
    stim_start_idx,
    stim_end_idx,
    samplesRead,        \* the positions (from 0) of the samples read, in order
    r_in,               \* the value returned
    rinStatus,          \* "ready" | "returned" | "IndexError"
    \* ---- estimate_gbar_leak_for_user_spec_rin
    target_Rin,         \* user_specs_dict['R-in']
    soma_surface_area,
    gbar_leak_estimate,
    gbarStatus,         \* "ready" | "returned" | "ZeroDivisionError"
    \* ---- the script (__main__)
    pc,                 \* the statement the script is at
    env,                \* the names bound in the script's namespace at start
    argc,               \* len(sys.argv)
    user_specs_dict,    \* "unset" | "None" | "dict" | "dict_without_R-in"
    passiveKeys,        \* keys of utils.description.data["passive"][0]
    cellParams,         \* the values load_cell_parameters put into the cell
    soma_surface_ara,   \* the name line 179 binds
    failed,             \* the exception that ended the script, or "none"
    failedAt,           \* the statement that raised it
    trail               \* the milestones passed, in order

patchVars == <<heap, data, heap0, value_to_assign, sections, var_to_update,
               new_assignments, patchStatus>>

rinVars == <<dt, stim_delay, stim_dur, stim_amp, v, stim_start_idx, stim_end_idx,
             samplesRead, r_in, rinStatus>>

gbarVars == <<target_Rin, soma_surface_area, gbar_leak_estimate, gbarStatus>>

mainVars == <<pc, env, argc, user_specs_dict, passiveKeys, cellParams,
              soma_surface_ara, failed, failedAt, trail>>

vars == <<patchVars, rinVars, gbarVars, mainVars>>

(***************************************************************************)
(* Float arithmetic, as exact rationals in lowest terms                    *)
(***************************************************************************)
Abs(x) == IF x < 0 THEN -x ELSE x

RECURSIVE GCD(_, _)
GCD(a, b) == IF b = 0 THEN a ELSE GCD(b, a % b)

NoValue == [kind |-> "none", num |-> 0, den |-> 1]
Inf == [kind |-> "inf", num |-> 0, den |-> 1]
NegInf == [kind |-> "-inf", num |-> 0, den |-> 1]
NaN == [kind |-> "nan", num |-> 0, den |-> 1]

\* the float n / d, d # 0
Rat(n, d) ==
    LET g == GCD(Abs(n), Abs(d))
        s == IF d < 0 THEN -1 ELSE 1
    IN  [kind |-> "num", num |-> (s * n) \div g, den |-> (s * d) \div g]

IsZero(x) == x.kind = "num" /\ x.num = 0

\* numpy.float64 / float: a zero divisor gives inf, -inf or nan (and a
\* RuntimeWarning), never an exception
NumpyDivide(x, y) ==
    IF y # 0 THEN Rat(x, y)
    ELSE IF x > 0 THEN Inf ELSE IF x < 0 THEN NegInf ELSE NaN

\* int(a / b) for b > 0: int() truncates towards zero
IntTrunc(a, b) == IF a >= 0 THEN a \div b ELSE -((-a) \div b)

(***************************************************************************)
(* update_sections                                                         *)
(***************************************************************************)
SectionNames == {"soma", "dend"}
ParamNames == {"g_pas", "e_pas"}
FloatValues == {Rat(0, 1), Rat(1, 1), Rat(2, 1)}
Entries == [section : SectionNames, name : ParamNames, value : FloatValues]
TargetSectionSets == {{"soma"}, {"dend"}, {"all"}, {"soma", "all"}, {}}
TargetNameSets == {{"g_pas"}, {"e_pas"}, {"all"}, {}}

\* list.copy(): a new list holding the same objects.
ListCopy(list) == list

\* dict.copy(): a new dict with the same items (the model keeps the items).
DictCopy(entry) == entry

\* the two conditions of the loop body
Matches(entry, secs, names) ==
    /\ (entry.section \in secs) \/ ("all" \in secs)
    /\ (entry.name \in names) \/ ("all" \in names)

\* entry['value'] = value_to_assign, on the dict the list holds
AssignValue(h, id, value) == [h EXCEPT ![id].value = value]

\* the first for loop, from position i on; originals collects entry.copy()
RECURSIVE PatchLoop(_, _, _, _, _, _, _)
PatchLoop(h, list, i, value, secs, names, originals) ==
    IF i > Len(list) THEN [heap |-> h, original_entries |-> originals]
    ELSE IF Matches(h[list[i]], secs, names)
         THEN PatchLoop(AssignValue(h, list[i], value), list, i + 1, value,
                        secs, names, Append(originals, DictCopy(h[list[i]])))
         ELSE PatchLoop(h, list, i + 1, value, secs, names, originals)

\* The second for loop formats the percent change once per updated entry, and
\* divides by entry['value'], where `entry` is the variable the first loop
\* left bound: the last dict of the list, as it is after the loop.
DiagnosticsRaise(h, list, originals) ==
    /\ Len(originals) > 0
    /\ IsZero(h[list[Len(list)]].value)

\* update_sections as a whole: the heap it leaves, and how it ends
update_sections(value, h, list, secs, names) ==
    LET original_assignments == ListCopy(list)
        new == ListCopy(original_assignments)
        loop == PatchLoop(h, new, 1, value, secs, names, <<>>)
    IN  IF DiagnosticsRaise(loop.heap, new, loop.original_entries)
        THEN [heap |-> loop.heap, ret |-> <<>>, status |-> "ZeroDivisionError"]
        ELSE [heap |-> loop.heap, ret |-> new, status |-> "returned"]


(***************************************************************************)
(* RInSimulation.measure_r_in                                              *)
(***************************************************************************)
Volts == {-75, -70, -65}
Traces == UNION {[1 .. n -> Volts] : n \in 0 .. MaxTrace}
Dts == {25, 500, 1000}
Delays == {0, 500, 1000, 2000, 100000}
Durs == {1000, 2000, 800000}
Amps == {-2, -1, 0, 1}

\* a variant that folds the shift to the resting sample into the start index
StimStartIdxShifted(delay, step) == IntTrunc(delay, step) - 1
StimStartIdx(delay, step) == IntTrunc(delay, step)
StimEndIdx(delay, dur, step) == IntTrunc(delay + dur, step)
\* a variant that reads the first sample of the stimulus as the resting one
VRestIdxUnshifted(start) == start
VRestIdx(start) == start - 1
VTroughIdx(end) == end - 1

\* numpy's v[idx] on an array of n samples: -n .. -1 count from the end,
\* anything outside -n .. n-1 raises IndexError
IndexInRange(n, idx) == (-n <= idx) /\ (idx < n)
IndexPosition(n, idx) == IF idx < 0 THEN n + idx ELSE idx

\* r_in = (V_rest - V_trough) / self.stim_amp
RIn(V_rest, V_trough, amp) == NumpyDivide(V_rest - V_trough, amp)

\* measure_r_in after the run: the locals it computes, the samples it reads
\* and how it ends
measure_r_in(trace, step, delay, dur, amp) ==
    LET n == Len(trace)
        start == StimStartIdx(delay, step)
        end == StimEndIdx(delay, dur, step)
        ri == VRestIdx(start)
        ti == VTroughIdx(end)
        rp == IndexPosition(n, ri)
        tp == IndexPosition(n, ti)
        locals == [stim_start_idx |-> start, stim_end_idx |-> end]
    IN  IF ~IndexInRange(n, ri)
        THEN [locals |-> locals, read |-> <<>>, r_in |-> NoValue,
              status |-> "IndexError"]
        ELSE IF ~IndexInRange(n, ti)
        THEN [locals |-> locals, read |-> <<rp>>, r_in |-> NoValue,
              status |-> "IndexError"]
        ELSE [locals |-> locals, read |-> <<rp, tp>>,
              r_in |-> RIn(trace[rp + 1], trace[tp + 1], amp),
              status |-> "returned"]

(***************************************************************************)
(* estimate_gbar_leak_for_user_spec_rin                                    *)
(***************************************************************************)
Rins == {-2, -1, 0, 1, 2, 4, 5, 100}
Areas == {-2, -1, 0, 1, 2, 3, 4}

\* (1 / user_specs_dict['R-in']) / soma_surface_area on Python numbers: a
\* zero divisor raises ZeroDivisionError, at the first division or the second
estimate_gbar(area, rin) ==
    IF rin = 0 \/ area = 0
    THEN [gbar |-> NoValue, status |-> "ZeroDivisionError"]
    ELSE LET inv == Rat(1, rin)
         IN  [gbar |-> Rat(inv.num, inv.den * area), status |-> "returned"]

(***************************************************************************)
(* Specifications of the three functions, each applied to drawn inputs     *)
(***************************************************************************)
PatchIdle ==
    /\ heap = <<>> /\ data = <<>> /\ heap0 = <<>>
    /\ value_to_assign = NoValue /\ sections = {} /\ var_to_update = {}
    /\ new_assignments = <<>> /\ patchStatus = "ready"

RinIdle ==
    /\ dt = 25 /\ stim_delay = 0 /\ stim_dur = 0 /\ stim_amp = 0
    /\ v = <<>> /\ stim_start_idx = 0 /\ stim_end_idx = 0
    /\ samplesRead = <<>> /\ r_in = NoValue /\ rinStatus = "ready"

GbarIdle ==
    /\ target_Rin = 0 /\ soma_surface_area = 0
    /\ gbar_leak_estimate = NoValue /\ gbarStatus = "ready"

MainIdle ==
    /\ pc = "idle" /\ env = {} /\ argc = 1 /\ user_specs_dict = "unset"
    /\ passiveKeys = {} /\ cellParams = <<>> /\ soma_surface_ara = 0
    /\ failed = "none" /\ failedAt = "none" /\ trail = <<>>

Ids(n) == 1 .. n

PatchInit ==
    /\ \E n \in 0 .. MaxLen :
         /\ heap \in [Ids(n) -> Entries]
         /\ data = [i \in Ids(n) |-> i]
    /\ heap0 = heap
    /\ value_to_assign \in FloatValues
    /\ sections \in TargetSectionSets
    /\ var_to_update \in TargetNameSets
    /\ new_assignments = <<>>
    /\ patchStatus = "ready"
    /\ RinIdle /\ GbarIdle /\ MainIdle

UpdateSectionsCall ==
    /\ patchStatus = "ready"
    /\ LET r == update_sections(value_to_assign, heap, data, sections, var_to_update)
       IN  /\ heap' = r.heap
           /\ new_assignments' = r.ret
           /\ patchStatus' = r.status
    /\ UNCHANGED <<data, heap0, value_to_assign, sections, var_to_update>>
    /\ UNCHANGED <<rinVars, gbarVars, mainVars>>

PatchNext == UpdateSectionsCall

SpecPatch == PatchInit /\ [][PatchNext]_vars

RinInit ==
    /\ dt \in Dts
    /\ stim_delay \in Delays
    /\ stim_dur \in Durs
    /\ stim_amp \in Amps
    /\ v = <<>> /\ stim_start_idx = 0 /\ stim_end_idx = 0
    /\ samplesRead = <<>> /\ r_in = NoValue /\ rinStatus = "ready"
    /\ PatchIdle /\ GbarIdle /\ MainIdle

\* measure_r_in: the run records a trace, then the estimate is taken from it
MeasureRInCall ==
    /\ rinStatus = "ready"
    /\ \E trace \in Traces :
         LET r == measure_r_in(trace, dt, stim_delay, stim_dur, stim_amp)
         IN  /\ v' = trace
             /\ stim_start_idx' = r.locals.stim_start_idx
             /\ stim_end_idx' = r.locals.stim_end_idx
             /\ samplesRead' = r.read
             /\ r_in' = r.r_in
             /\ rinStatus' = r.status
    /\ UNCHANGED <<dt, stim_delay, stim_dur, stim_amp>>
    /\ UNCHANGED <<patchVars, gbarVars, mainVars>>

RinNext == MeasureRInCall

SpecRin == RinInit /\ [][RinNext]_vars

GbarInit ==
    /\ target_Rin \in Rins
    /\ soma_surface_area \in Areas
    /\ gbar_leak_estimate = NoValue
    /\ gbarStatus = "ready"
    /\ PatchIdle /\ RinIdle /\ MainIdle

EstimateGbarCall ==
    /\ gbarStatus = "ready"
    /\ LET r == estimate_gbar(soma_surface_area, target_Rin)
       IN  /\ gbar_leak_estimate' = r.gbar
           /\ gbarStatus' = r.status
    /\ UNCHANGED <<target_Rin, soma_surface_area>>
    /\ UNCHANGED <<patchVars, rinVars, mainVars>>

GbarNext == EstimateGbarCall

SpecGbar == GbarInit /\ [][GbarNext]_vars

(***************************************************************************)
(* The script (__main__), one action per statement group.  A name the      *)
(* module never binds (sys, user_specifications, soma_surface_area)        *)
(* resolves only if the namespace the script is run in holds it already    *)
(* (`env`; empty when the file is run as `python <file>`); otherwise the   *)
(* statement raises NameError.  What the collaborators return (the model   *)
(* repository, the files, the simulation engine) is drawn when it is read. *)
(***************************************************************************)
GlobalNames == {"sys", "user_specifications", "soma_surface_area"}
PassiveNames == {"e_pas", "cm", "ra"}
RawValues == {"0.0", "1.0", "abc"}
RawEntries == [section : SectionNames, name : {"g_pas"}, value : RawValues]
MainRins == {0, 2}
MainAreas == {1, 2}
EngineDts == {100000, 200000}
TroughVolts == {-75, -65}

\* RInSimulation.__init__ defaults, in the units of the model
DefaultStimAmp == -1
DefaultStimDelay == 100000
DefaultStimDur == 800000
DefaultTstop == 1000000
\* h.finitialize(-65)
InitialVoltage == -65

\* float(item) on a manifest string
CanParseFloat(str) == str \in {"0.0", "1.0"}
ParseFloat(str) == IF str = "0.0" THEN Rat(0, 1) ELSE Rat(1, 1)

\* a variant that runs the simulation on the patched list without the rebuild
ScriptOrderWithoutRebuild ==
    <<"argv", "specs", "fetch", "compile", "load", "passive", "morphology",
      "build", "area", "gbar", "patch", "new_simulation",
      "configure", "run", "estimate", "done">>

\* the statements of the script, in the order they are written
ScriptOrder ==
    <<"argv", "specs", "fetch", "compile", "load", "passive", "morphology",
      "build", "area", "gbar", "patch", "rebuild", "new_simulation",
      "configure", "run", "estimate", "done">>

NextPc(p) ==
    LET i == CHOOSE k \in DOMAIN ScriptOrder : ScriptOrder[k] = p
    IN  ScriptOrder[i + 1]

Advance == pc' = NextPc(pc) /\ failed' = failed /\ failedAt' = failedAt

\* an exception nothing catches: the script ends
Halt(exception) == pc' = "halted" /\ failed' = exception /\ failedAt' = pc

\* the values of the parameter list, in order
GenomeValues(h, list) == [i \in DOMAIN list |-> h[list[i]].value]

\* the trace the engine records over tstop: the initial sample and one per
\* step, at the initial voltage outside the stimulus and at `trough` inside
EngineTrace(step, tstop, delay, dur, trough) ==
    [k \in 1 .. (tstop \div step) + 1 |->
        IF (delay <= (k - 1) * step) /\ ((k - 1) * step < delay + dur)
        THEN trough ELSE InitialVoltage]

MainInit ==
    /\ pc = "argv"
    /\ env \in SUBSET GlobalNames
    /\ argc \in 1 .. 3
    /\ user_specs_dict = "unset"
    /\ passiveKeys = {} /\ cellParams = <<>> /\ soma_surface_ara = 0
    /\ failed = "none" /\ failedAt = "none" /\ trail = <<>>
    /\ PatchIdle /\ GbarIdle
    /\ dt \in EngineDts
    /\ stim_delay = 0 /\ stim_dur = 0 /\ stim_amp = 0
    /\ v = <<>> /\ stim_start_idx = 0 /\ stim_end_idx = 0
    /\ samplesRead = <<>> /\ r_in = NoValue /\ rinStatus = "ready"

\* lines 137-141
ParseArgs ==
    /\ pc = "argv"
    /\ \/ "sys" \notin env /\ Halt("NameError")
       \/ "sys" \in env /\ argc <= 1 /\ Halt("ValueError")
       \/ "sys" \in env /\ argc > 1 /\ Advance
    /\ UNCHANGED <<env, argc, user_specs_dict, passiveKeys, cellParams,
                   soma_surface_ara, trail>>
    /\ UNCHANGED <<patchVars, rinVars, gbarVars>>

\* lines 143-147, with load_dictionary_from_json
LoadSpecs ==
    /\ pc = "specs"
    /\ \/ /\ argc > 2
          /\ \E rin \in MainRins : target_Rin' = rin
          /\ user_specs_dict' = "dict"
          /\ Advance
       \/ /\ argc > 2
          /\ user_specs_dict' = "dict_without_R-in"
          /\ UNCHANGED target_Rin
          /\ Advance
       \/ /\ argc > 2
          /\ \E e \in {"FileNotFoundError", "ValueError"} : Halt(e)
          /\ UNCHANGED <<user_specs_dict, target_Rin>>
       \/ /\ argc <= 2
          /\ user_specs_dict' = "None"
          /\ UNCHANGED target_Rin
          /\ Advance
    /\ UNCHANGED <<env, argc, passiveKeys, cellParams, soma_surface_ara, trail>>
    /\ UNCHANGED <<patchVars, rinVars>>
    /\ UNCHANGED <<soma_surface_area, gbar_leak_estimate, gbarStatus>>

\* a statement that only calls a collaborator: it returns or it raises
ExternalStep(at, exception) ==
    /\ pc = at
    /\ \/ Advance
       \/ Halt(exception)
    /\ UNCHANGED <<env, argc, user_specs_dict, passiveKeys, cellParams,
                   soma_surface_ara, trail>>
    /\ UNCHANGED <<patchVars, rinVars, gbarVars>>

\* lines 149-153
FetchModel == ExternalStep("fetch", "FetchError")

\* line 156
CompileModfiles == ExternalStep("compile", "CalledProcessError")

\* lines 159-167: the description is loaded and every genome value is
\* converted with float()
LoadDescription ==
    /\ pc = "load"
    /\ \/ /\ Halt("EngineError")
          /\ UNCHANGED <<heap, data, heap0>>
       \/ \E n \in 0 .. MaxLen : \E raw \in [Ids(n) -> RawEntries] :
            IF \A i \in Ids(n) : CanParseFloat(raw[i].value)
            THEN /\ heap' = [i \in Ids(n) |->
                                [raw[i] EXCEPT !.value = ParseFloat(raw[i].value)]]
                 /\ heap0' = heap'
                 /\ data' = [i \in Ids(n) |-> i]
                 /\ Advance
            ELSE /\ Halt("ValueError")
                 /\ UNCHANGED <<heap, data, heap0>>
    /\ UNCHANGED <<value_to_assign, sections, var_to_update, new_assignments,
                   patchStatus>>
    /\ UNCHANGED <<env, argc, user_specs_dict, passiveKeys, cellParams,
                   soma_surface_ara, trail>>
    /\ UNCHANGED <<rinVars, gbarVars>>

\* line 169, with update_missing_passive_values
UpdatePassive ==
    /\ pc = "passive"
    /\ \/ /\ "user_specifications" \notin env
          /\ Halt("NameError")
          /\ UNCHANGED passiveKeys
       \/ /\ "user_specifications" \in env
          /\ \E present \in SUBSET PassiveNames :
               \/ /\ passiveKeys' = PassiveNames
                  /\ Advance
               \/ /\ present # PassiveNames
                  /\ passiveKeys' = present
                  /\ Halt("KeyError")
    /\ UNCHANGED <<env, argc, user_specs_dict, cellParams, soma_surface_ara, trail>>
    /\ UNCHANGED <<patchVars, rinVars, gbarVars>>

\* lines 172-174
GenerateMorphology == ExternalStep("morphology", "EngineError")

\* utils.load_cell_parameters(): the genome is put into the cell
LoadCellParameters(at, milestone) ==
    /\ pc = at
    /\ \/ /\ cellParams' = GenomeValues(heap, data)
          /\ trail' = Append(trail, milestone)
          /\ Advance
       \/ /\ Halt("EngineError")
          /\ UNCHANGED <<cellParams, trail>>
    /\ UNCHANGED <<env, argc, user_specs_dict, passiveKeys, soma_surface_ara>>
    /\ UNCHANGED <<patchVars, rinVars, gbarVars>>

\* line 177
BuildCell == LoadCellParameters("build", "BUILT")

\* line 179, with measure_soma_surface_area
MeasureArea ==
    /\ pc = "area"
    /\ \E a \in MainAreas : soma_surface_ara' = a
    /\ Advance
    /\ UNCHANGED <<env, argc, user_specs_dict, passiveKeys, cellParams, trail>>
    /\ UNCHANGED <<patchVars, rinVars, gbarVars>>

\* line 181
EstimateGbar ==
    /\ pc = "gbar"
    /\ \/ /\ "soma_surface_area" \notin env
          /\ Halt("NameError")
          /\ UNCHANGED <<soma_surface_area, gbar_leak_estimate, gbarStatus>>
       \/ /\ "soma_surface_area" \in env
          /\ \E a \in MainAreas : soma_surface_area' = a
          /\ \/ /\ user_specs_dict = "None"
                /\ Halt("TypeError")
                /\ UNCHANGED <<gbar_leak_estimate, gbarStatus>>
             \/ /\ user_specs_dict = "dict_without_R-in"
                /\ Halt("KeyError")
                /\ UNCHANGED <<gbar_leak_estimate, gbarStatus>>
             \/ /\ user_specs_dict = "dict"
                /\ LET r == estimate_gbar(soma_surface_area', target_Rin)
                   IN  /\ gbar_leak_estimate' = r.gbar
                       /\ gbarStatus' = r.status
                       /\ IF r.status = "returned" THEN Advance ELSE Halt(r.status)
    /\ UNCHANGED target_Rin
    /\ UNCHANGED <<env, argc, user_specs_dict, passiveKeys, cellParams,
                   soma_surface_ara, trail>>
    /\ UNCHANGED <<patchVars, rinVars>>

\* lines 183-187
PatchGenome ==
    /\ pc = "patch"
    /\ value_to_assign' = gbar_leak_estimate
    /\ sections' = {"soma"}
    /\ var_to_update' = {"g_pas"}
    /\ LET r == update_sections(gbar_leak_estimate, heap, data, {"soma"}, {"g_pas"})
       IN  /\ heap' = r.heap
           /\ new_assignments' = r.ret
           /\ patchStatus' = r.status
           /\ IF r.status = "returned"
              THEN /\ data' = r.ret
                   /\ trail' = Append(trail, "TUNED")
                   /\ Advance
              ELSE /\ UNCHANGED <<data, trail>>
                   /\ Halt(r.status)
    /\ UNCHANGED heap0
    /\ UNCHANGED <<env, argc, user_specs_dict, passiveKeys, cellParams,
                   soma_surface_ara>>
    /\ UNCHANGED <<rinVars, gbarVars>>

\* line 189
RebuildCell == LoadCellParameters("rebuild", "REBUILT")

\* line 191, RInSimulation.__init__
NewSimulation ==
    /\ pc = "new_simulation"
    /\ stim_amp' = DefaultStimAmp
    /\ stim_delay' = DefaultStimDelay
    /\ stim_dur' = DefaultStimDur
    /\ Advance
    /\ UNCHANGED <<dt, v, stim_start_idx, stim_end_idx, samplesRead, r_in, rinStatus>>
    /\ UNCHANGED <<env, argc, user_specs_dict, passiveKeys, cellParams,
                   soma_surface_ara, trail>>
    /\ UNCHANGED <<patchVars, gbarVars>>

\* line 192, measure_r_in -> run_simulation: setup_stimulation, setup_recording
ConfigureSimulation ==
    /\ pc = "configure"
    /\ \/ /\ trail' = Append(trail, "CONFIGURED")
          /\ Advance
       \/ /\ Halt("EngineError")
          /\ UNCHANGED trail
    /\ UNCHANGED <<env, argc, user_specs_dict, passiveKeys, cellParams,
                   soma_surface_ara>>
    /\ UNCHANGED <<patchVars, rinVars, gbarVars>>

\* run_simulation: h.finitialize(-65); h.run()
RunSimulation ==
    /\ pc = "run"
    /\ \E trough \in TroughVolts :
         v' = EngineTrace(dt, DefaultTstop, stim_delay, stim_dur, trough)
    /\ trail' = Append(trail, "RUN")
    /\ Advance
    /\ UNCHANGED <<dt, stim_delay, stim_dur, stim_amp, stim_start_idx,
                   stim_end_idx, samplesRead, r_in, rinStatus>>
    /\ UNCHANGED <<env, argc, user_specs_dict, passiveKeys, cellParams,
                   soma_surface_ara>>
    /\ UNCHANGED <<patchVars, gbarVars>>

\* measure_r_in, lines 70-98
EstimateRIn ==
    /\ pc = "estimate"
    /\ LET r == measure_r_in(v, dt, stim_delay, stim_dur, stim_amp)
       IN  /\ stim_start_idx' = r.locals.stim_start_idx
           /\ stim_end_idx' = r.locals.stim_end_idx
           /\ samplesRead' = r.read
           /\ r_in' = r.r_in
           /\ rinStatus' = r.status
           /\ IF r.status = "returned"
              THEN trail' = Append(trail, "MEASURED") /\ Advance
              ELSE UNCHANGED trail /\ Halt(r.status)
    /\ UNCHANGED <<dt, stim_delay, stim_dur, stim_amp, v>>
    /\ UNCHANGED <<env, argc, user_specs_dict, passiveKeys, cellParams,
                   soma_surface_ara>>
    /\ UNCHANGED <<patchVars, gbarVars>>

Next ==
    \/ ParseArgs
    \/ LoadSpecs
    \/ FetchModel
    \/ CompileModfiles
    \/ LoadDescription
    \/ UpdatePassive
    \/ GenerateMorphology
    \/ BuildCell
    \/ MeasureArea
    \/ EstimateGbar
    \/ PatchGenome
    \/ RebuildCell
    \/ NewSimulation
    \/ ConfigureSimulation
    \/ RunSimulation
    \/ EstimateRIn

Init == MainInit

Spec == Init /\ [][Next]_vars

\* C1: after update_sections has ended, the caller's list and every dict in it
\* hold the section, name and value they held before the call.
C1_InputUntouched ==
    patchStatus # "ready" =>
        /\ \A i \in DOMAIN data : heap[data[i]] = heap0[data[i]]

\* C2: for every input, update_sections returns a list of the same length and
\* order whose entry i carries `value` when its section and its name are both
\* selected (by membership or by "all"), and equals input entry i otherwise;
\* section and name of every entry are those of the input.
C2_ReturnsPatchedList ==
    patchStatus # "ready" =>
        /\ patchStatus = "returned"
        /\ Len(new_assignments) = Len(data)
        /\ \A i \in DOMAIN new_assignments :
             LET old == heap0[data[i]]
                 new == heap[new_assignments[i]]
             IN  /\ new.section = old.section
                 /\ new.name = old.name
                 /\ IF Matches(old, sections, var_to_update)
                    THEN new.value = value_to_assign
                    ELSE new = old
\* the claimed sample indices: floor(stim_delay / dt) - 1 and
\* floor((stim_delay + stim_dur) / dt) - 1 (\div is the floor for dt > 0)
ClaimedRestIdx == (stim_delay \div dt) - 1
ClaimedTroughIdx == ((stim_delay + stim_dur) \div dt) - 1
ClaimedInBounds(idx) == (0 <= idx) /\ (idx < Len(v))

C5_TenMegaOhm ==
    (/\ rinStatus # "ready"
     /\ stim_amp = -1
     /\ ClaimedInBounds(ClaimedRestIdx) /\ ClaimedInBounds(ClaimedTroughIdx)
     /\ v[ClaimedRestIdx + 1] = -65
     /\ v[ClaimedTroughIdx + 1] = -75) =>
        /\ rinStatus = "returned"
        /\ r_in = [kind |-> "num", num |-> 10, den |-> 1]

\* C6: when the resting or the trough index lies outside 0 .. N-1 (a negative
\* index included), the estimator fails and returns no R_in: no sample at
\* another position stands in for the one that is out of bounds.
C6_OutOfRangeFails ==
    (/\ rinStatus # "ready"
     /\ ~(ClaimedInBounds(ClaimedRestIdx) /\ ClaimedInBounds(ClaimedTroughIdx))) =>
        /\ rinStatus = "IndexError"
        /\ r_in = NoValue

\* C9: with stim_amp = 0 the estimator fails and returns no R_in value.
C9_ZeroAmpFails ==
    (rinStatus # "ready" /\ stim_amp = 0) =>
        /\ rinStatus # "returned"
        /\ r_in = NoValue

\* C10 as claimed: for dt = 0.025, stim_delay = 100 and stim_dur = 800 the
\* index computation yields stim_start_idx = 3999 and stim_end_idx = 35999.
C10_AsClaimed ==
    (rinStatus # "ready" /\ dt = 25 /\ stim_delay = 100000 /\ stim_dur = 800000) =>
        stim_start_idx = 3999 /\ stim_end_idx = 35999

\* C10 as amended: the indices depend only on dt, stim_delay and stim_dur,
\* truncate the quotient, and for dt = 0.025, stim_delay = 100, stim_dur = 800
\* are stim_start_idx = 4000 and stim_end_idx = 36000, whatever the trace holds
\* (3999 and 35999 are the samples read, one before each).
C10_Indices ==
    rinStatus # "ready" =>
        /\ stim_delay >= 0 =>
             /\ stim_start_idx = stim_delay \div dt
             /\ stim_end_idx = (stim_delay + stim_dur) \div dt
        /\ (dt = 25 /\ stim_delay = 100000 /\ stim_dur = 800000) =>
             stim_start_idx = 4000 /\ stim_end_idx = 36000

C10_Witness ==
    /\ rinStatus # "ready"
    /\ dt = 25 /\ stim_delay = 100000 /\ stim_dur = 800000
    /\ stim_start_idx = 4000 /\ stim_end_idx = 36000
    /\ Len(v) = 2 /\ v[1] # v[2]

\* C8: estimate_gbar returns (1 / target_Rin) / surface_area when both are
\* positive, and fails, returning no conductance, when either is <= 0.
C8_GbarValidated ==
    gbarStatus # "ready" =>
        IF target_Rin > 0 /\ soma_surface_area > 0
        THEN /\ gbarStatus = "returned"
             /\ gbar_leak_estimate = Rat(1, target_Rin * soma_surface_area)
        ELSE /\ gbarStatus # "returned"
             /\ gbar_leak_estimate = NoValue
IsPrefix(s, t) == Len(s) <= Len(t) /\ \A i \in DOMAIN s : s[i] = t[i]

Milestones == <<"BUILT", "TUNED", "REBUILT", "CONFIGURED", "RUN", "MEASURED">>

UpstreamSteps ==
    {"argv", "specs", "fetch", "compile", "load", "passive", "morphology",
     "build", "area", "gbar", "patch"}

====
